---- MODULE Spec2Model ----
(***************************************************************************)
(* A model of the ZKS-AUTH TOTP generator (src/totp.js, class TOTP) and of *)
(* the page logic that drives it (src/unnamed/part_000, class ZKSAuth).    *)
(*                                                                         *)
(* Representation.                                                         *)
(*   - A JavaScript string is a sequence of one-character strings.         *)
(*   - A Uint8Array is a sequence of numbers in 0..255; JavaScript index i *)
(*     is TLA+ index i + 1.                                                *)
(*   - A 32-bit word is a pair <<hi, lo>> of 16-bit halves.  JavaScript's  *)
(*     int32 and uint32 views of a word are the same bit pattern, and all  *)
(*     the operators used by sha1Simple (|, &, ^, ~, <<, >>> and + followed *)
(*     by >>> 0) are functions of the bit patterns of their operands.      *)
(***************************************************************************)
EXTENDS Integers, Sequences, FiniteSets, TLC

(***************************************************************************)
(* 32-bit word arithmetic                                                  *)
(***************************************************************************)
Pow2Table ==
    <<1, 2, 4, 8, 16, 32, 64, 128, 256, 512, 1024, 2048, 4096, 8192, 16384,
      32768, 65536, 131072, 262144, 524288, 1048576, 2097152, 4194304,
      8388608, 16777216, 33554432, 67108864, 134217728, 268435456,
      536870912, 1073741824>>

Pow2(n) == Pow2Table[n + 1]

\* Math.pow(10, n)
RECURSIVE Pow10(_)
Pow10(n) == IF n = 0 THEN 1 ELSE 10 * Pow10(n - 1)

\* Bitwise operators on n-bit numbers, bit by bit.
RECURSIVE BitXor(_, _, _)
BitXor(a, b, n) ==
    IF n = 0 THEN 0
    ELSE 2 * BitXor(a \div 2, b \div 2, n - 1) + ((a + b) % 2)

RECURSIVE BitAnd(_, _, _)
BitAnd(a, b, n) ==
    IF n = 0 THEN 0
    ELSE 2 * BitAnd(a \div 2, b \div 2, n - 1) + ((a % 2) * (b % 2))

RECURSIVE BitOr(_, _, _)
BitOr(a, b, n) ==
    IF n = 0 THEN 0
    ELSE 2 * BitOr(a \div 2, b \div 2, n - 1)
         + (IF (a % 2) + (b % 2) > 0 THEN 1 ELSE 0)

\* The same operators on 4-bit digits, tabulated, and on 16-bit halves.
Xor4 == [a \in 0..15 |-> [b \in 0..15 |-> BitXor(a, b, 4)]]
And4 == [a \in 0..15 |-> [b \in 0..15 |-> BitAnd(a, b, 4)]]
Or4  == [a \in 0..15 |-> [b \in 0..15 |-> BitOr(a, b, 4)]]

Nibbles(T, a, b) ==
      T[a % 16][b % 16]
    + 16 * T[(a \div 16) % 16][(b \div 16) % 16]
    + 256 * T[(a \div 256) % 16][(b \div 256) % 16]
    + 4096 * T[a \div 4096][b \div 4096]

Xor32(x, y) == <<Nibbles(Xor4, x[1], y[1]), Nibbles(Xor4, x[2], y[2])>>
And32(x, y) == <<Nibbles(And4, x[1], y[1]), Nibbles(And4, x[2], y[2])>>
Or32(x, y)  == <<Nibbles(Or4, x[1], y[1]), Nibbles(Or4, x[2], y[2])>>
Not32(x)    == <<65535 - x[1], 65535 - x[2]>>

\* (x + y) >>> 0
Add32(x, y) ==
    LET lo == x[2] + y[2]
        hi == x[1] + y[1] + (lo \div 65536)
    IN  <<hi % 65536, lo % 65536>>

\* rotateLeft(n, rotateCount): ((n << c) | (n >>> (32 - c))) >>> 0, 0 < c < 32
rotateLeft(n, rotateCount) ==
    LET x == IF rotateCount >= 16 THEN <<n[2], n[1]>> ELSE n
        c == rotateCount % 16
        p == Pow2(c)
        q == Pow2(16 - c)
    IN  IF c = 0 THEN x
        ELSE <<((x[1] % q) * p) + (x[2] \div q),
               ((x[2] % q) * p) + (x[1] \div q)>>

\* JavaScript's x >>> s for a number 0 <= x < 2^31: the shift count is taken
\* modulo 32 (ECMAScript, Number::unsignedRightShift).
Ushr(x, s) == x \div Pow2(s % 32)

(***************************************************************************)
(* SHA-1 (TOTP.sha1Simple)                                                 *)
(***************************************************************************)
\* new Uint8Array(data.length + 1 + (64 - (data.length + 1 + 8) % 64) % 64 + 8)
PaddedLength(len) == len + 1 + ((64 - ((len + 1 + 8) % 64)) % 64) + 8

\* The pre-processing of sha1Simple: paddedData.set(data); paddedData[data.length]
\* = 0x80; then for i in 0..7:
\*   paddedData[paddedData.length - 8 + i] = (msgLength >>> (56 - i * 8)) & 0xFF
sha1SimplePad(data) ==
    LET len       == Len(data)
        msgLength == len * 8
        plen      == PaddedLength(len)
    IN  [j \in 1..plen |->
            IF j > plen - 8
              THEN Ushr(msgLength, 56 - ((j - 1) - (plen - 8)) * 8) % 256
            ELSE IF j <= len THEN data[j]
            ELSE IF j = len + 1 THEN 128
            ELSE 0]

\* The pre-processing of RFC 3174 section 4, which is what a native SHA-1
\* computes: 0x80, zeros, and the bit length as a 64-bit big-endian integer
\* (for the lengths modelled here the upper 32 bits of it are zero).
Rfc3174Pad(data) ==
    LET len       == Len(data)
        msgLength == len * 8
        plen      == PaddedLength(len)
    IN  [j \in 1..plen |->
            IF j > plen - 4
              THEN (msgLength \div Pow2(8 * (plen - j))) % 256
            ELSE IF j <= len THEN data[j]
            ELSE IF j = len + 1 THEN 128
            ELSE 0]

\* w[i] for i < 16: the big-endian word at paddedData[chunk + i * 4]
ChunkWord(paddedData, chunk, i) ==
    LET o == chunk + i * 4
    IN  <<paddedData[o + 1] * 256 + paddedData[o + 2],
          paddedData[o + 3] * 256 + paddedData[o + 4]>>

\* w[i] = rotateLeft(w[i-3] ^ w[i-8] ^ w[i-14] ^ w[i-16], 1) for lo <= i < hi;
\* w is kept as a sequence, w[i] of the code at index i + 1.  The loop is
\* unfolded by halves, which only bounds the depth of the evaluation.
RECURSIVE ExtendWords(_, _, _)
ExtendWords(w, lo, hi) ==
    IF hi - lo = 1
      THEN Append(w, rotateLeft(Xor32(Xor32(Xor32(w[lo - 2], w[lo - 7]),
                                            w[lo - 13]), w[lo - 15]), 1))
    ELSE LET mid  == (lo + hi) \div 2
             half == ExtendWords(w, lo, mid)
         IN  IF Len(half) = mid THEN ExtendWords(half, mid, hi) ELSE <<>>

K1 == <<23170, 31129>>      \* 0x5A827999
K2 == <<28377, 60321>>      \* 0x6ED9EBA1
K3 == <<36635, 48348>>      \* 0x8F1BBCDC
K4 == <<51810, 49622>>      \* 0xCA62C1D6

RoundF(i, b, c, d) ==
    IF i < 20 THEN Or32(And32(b, c), And32(Not32(b), d))
    ELSE IF i < 40 THEN Xor32(Xor32(b, c), d)
    ELSE IF i < 60 THEN Or32(Or32(And32(b, c), And32(b, d)), And32(c, d))
    ELSE Xor32(Xor32(b, c), d)

RoundK(i) == IF i < 20 THEN K1 ELSE IF i < 40 THEN K2 ELSE IF i < 60 THEN K3 ELSE K4

\* One turn of the main loop on v = <<a, b, c, d, e>>:
\*   temp = (rotateLeft(a, 5) + f + e + k + w[i]) >>> 0;
\*   e = d; d = c; c = rotateLeft(b, 30); b = a; a = temp
MainStep(v, w, i) ==
    LET f    == RoundF(i, v[2], v[3], v[4])
        temp == Add32(Add32(Add32(Add32(rotateLeft(v[1], 5), f), v[5]),
                            RoundK(i)), w[i + 1])
    IN  <<temp, v[1], rotateLeft(v[2], 30), v[3], v[4]>>

\* for (i = lo; i < hi; i++), unfolded by halves
RECURSIVE MainLoop(_, _, _, _)
MainLoop(v, w, lo, hi) ==
    IF hi - lo = 1 THEN MainStep(v, w, lo)
    ELSE LET mid  == (lo + hi) \div 2
             half == MainLoop(v, w, lo, mid)
         IN  IF half[1][1] >= 0 THEN MainLoop(half, w, mid, hi) ELSE <<>>

H0 == <<<<26437, 8961>>, <<61389, 43913>>, <<39098, 56574>>,
        <<4146, 21622>>, <<50130, 57840>>>>

\* for (chunk = 0; chunk < paddedData.length; chunk += 64)
RECURSIVE ProcessChunks(_, _, _)
ProcessChunks(h, paddedData, chunk) ==
    IF chunk >= Len(paddedData) THEN h
    ELSE LET w16 == [i \in 1..16 |-> ChunkWord(paddedData, chunk, i - 1)]
             w   == ExtendWords(w16, 16, 80)
             v   == MainLoop(h, w, 0, 80)
             nh  == [k \in 1..5 |-> Add32(h[k], v[k])]
         IN  IF nh[1][1] >= 0 THEN ProcessChunks(nh, paddedData, chunk + 64)
             ELSE <<>>

\* result[i * 4 + j] = (hashes[i] >>> (24 - j * 8)) & 0xFF
HashBytes(h) ==
    [n \in 1..20 |->
        LET word == h[((n - 1) \div 4) + 1]
            j    == (n - 1) % 4
        IN  IF j = 0 THEN word[1] \div 256
            ELSE IF j = 1 THEN word[1] % 256
            ELSE IF j = 2 THEN word[2] \div 256
            ELSE word[2] % 256]

sha1Simple(data) == HashBytes(ProcessChunks(H0, sha1SimplePad(data), 0))

NativeSha1(data) == HashBytes(ProcessChunks(H0, Rfc3174Pad(data), 0))

(***************************************************************************)
(* HMAC-SHA1 (TOTP.hmacSha1Simple, and the Web Crypto path of hmacSha1)    *)
(***************************************************************************)
BlockSize == 64

\* The hash function hmacSha1Simple calls: sha1Simple in the code, the
\* platform's SHA-1 (native) inside crypto.subtle.
HashWith(native, data) == IF native THEN NativeSha1(data) ELSE sha1Simple(data)

\* hmacSha1Simple from "Pad key to block size" on:
\* HMAC = SHA1(outerPad + SHA1(innerPad + message))
HmacPadded(native, key, message) ==
    LET paddedKey == [i \in 1..BlockSize |-> IF i <= Len(key) THEN key[i] ELSE 0]
        innerPad  == [i \in 1..BlockSize |-> Nibbles(Xor4, paddedKey[i], 54)]
        outerPad  == [i \in 1..BlockSize |-> Nibbles(Xor4, paddedKey[i], 92)]
    IN  HashWith(native, outerPad \o HashWith(native, innerPad \o message))

\* if (key.length > blockSize) key = sha1Simple(key), and the rest
HmacOver(native, key0, message) ==
    HmacPadded(native,
               IF Len(key0) > BlockSize THEN HashWith(native, key0) ELSE key0,
               message)

hmacSha1Simple(key, message) == HmacOver(FALSE, key, message)

\* crypto.subtle.importKey + crypto.subtle.sign('HMAC', ...): RFC 2104 over
\* RFC 3174.
NativeHmacSha1(key, message) == HmacOver(TRUE, key, message)

(***************************************************************************)
(* JavaScript values and strings                                           *)
(***************************************************************************)
\* A JavaScript value handed to validateSecret or generate: a string, or a
\* value with no replace method (null, undefined, a number), on which
\* secret.replace(...) throws a TypeError.
JsString(chars) == [type |-> "string", chars |-> chars]
JsNull          == [type |-> "null", chars |-> <<>>]

UpperLetters ==
    <<"A", "B", "C", "D", "E", "F", "G", "H", "I", "J", "K", "L", "M",
      "N", "O", "P", "Q", "R", "S", "T", "U", "V", "W", "X", "Y", "Z">>
LowerLetters ==
    <<"a", "b", "c", "d", "e", "f", "g", "h", "i", "j", "k", "l", "m",
      "n", "o", "p", "q", "r", "s", "t", "u", "v", "w", "x", "y", "z">>
DigitChars == <<"0", "1", "2", "3", "4", "5", "6", "7", "8", "9">>

\* const base32Chars = 'ABCDEFGHIJKLMNOPQRSTUVWXYZ234567'
base32Chars == UpperLetters \o <<"2", "3", "4", "5", "6", "7">>

\* String.prototype.indexOf for a single character: 0-based, -1 when absent
IndexOf(str, ch) ==
    IF \E i \in 1..Len(str) : str[i] = ch
      THEN (CHOOSE i \in 1..Len(str) :
                str[i] = ch /\ \A j \in 1..(i - 1) : str[j] # ch) - 1
    ELSE -1

\* String.prototype.toUpperCase on the characters of the model
toUpperCase(str) ==
    [i \in 1..Len(str) |->
        IF IndexOf(LowerLetters, str[i]) >= 0
          THEN UpperLetters[IndexOf(LowerLetters, str[i]) + 1]
        ELSE str[i]]

\* the class [\s\-]
IsSpaceOrDash(ch) == ch \in {" ", "\t", "\n", "-"}

\* str.replace(/[\s\-]/g, '')
StripSpaceDash(str) == SelectSeq(str, LAMBDA ch : ~IsSpaceOrDash(ch))

\* str.replace(/from/g, to) for single characters
ReplaceChar(str, from, to) ==
    [i \in 1..Len(str) |-> IF str[i] = from THEN to ELSE str[i]]

\* str.replace(/=/g, '')
StripPadding(str) == SelectSeq(str, LAMBDA ch : ch # "=")

\* The cleaning shared by generate (lines 29-33) and validateSecret (79-81)
CleanSecret(chars) ==
    ReplaceChar(ReplaceChar(toUpperCase(StripSpaceDash(chars)), "0", "O"),
                "1", "I")

\* String(n) for an integer n >= 0
RECURSIVE DecimalString(_)
DecimalString(n) ==
    IF n < 10 THEN <<DigitChars[n + 1]>>
    ELSE Append(DecimalString(n \div 10), DigitChars[(n % 10) + 1])

\* str.padStart(width, ch)
padStart(str, width, ch) ==
    IF Len(str) >= width THEN str
    ELSE [i \in 1..(width - Len(str)) |-> ch] \o str

(***************************************************************************)
(* TOTP: validateSecret, base32Decode, intToBytes, dynamicTruncate         *)
(***************************************************************************)
\* /^[A-Z2-7=]+$/.test(str)
MatchesBase32Class(str) ==
    /\ Len(str) >= 1
    /\ \A i \in 1..Len(str) :
          \/ IndexOf(UpperLetters, str[i]) >= 0
          \/ str[i] \in {"2", "3", "4", "5", "6", "7", "="}

MinSecretLength == 16

\* validateSecret comparing the length of the raw secret, not of the cleaned one
validateSecretRawLength(secret) ==
    IF secret.type # "string" THEN FALSE
    ELSE MatchesBase32Class(CleanSecret(secret.chars))
         /\ Len(secret.chars) >= MinSecretLength

\* validateSecret(secret): the try block, and false from the catch
validateSecret(secret) ==
    IF secret.type # "string" THEN FALSE
    ELSE LET cleaned == CleanSecret(secret.chars)
         IN  MatchesBase32Class(cleaned) /\ Len(cleaned) >= MinSecretLength

\* base32Decode zero-extending the trailing bits into one more byte
base32DecodeExtraByte(encoded0) ==
    LET encoded == toUpperCase(StripPadding(encoded0))
        n       == Len(encoded)
        index   == [i \in 1..n |-> IndexOf(base32Chars, encoded[i])]
        bits    == [k \in 1..(5 * n) |->
                      (index[((k - 1) \div 5) + 1] \div Pow2(4 - ((k - 1) % 5))) % 2]
        padded  == bits \o [k \in 1..((8 - (Len(bits) % 8)) % 8) |-> 0]
        bytes   == [b \in 1..(Len(padded) \div 8) |->
                      128 * padded[8 * b - 7] + 64 * padded[8 * b - 6]
                    + 32 * padded[8 * b - 5] + 16 * padded[8 * b - 4]
                    + 8 * padded[8 * b - 3] + 4 * padded[8 * b - 2]
                    + 2 * padded[8 * b - 1] + padded[8 * b]]
    IN  IF \E i \in 1..n : index[i] = -1
          THEN [threw |-> TRUE, bytes |-> <<>>]
        ELSE [threw |-> FALSE, bytes |-> bytes]

\* base32Decode(encoded): [threw |-> an Error was thrown, bytes |-> the array]
base32Decode(encoded0) ==
    LET encoded == toUpperCase(StripPadding(encoded0))
        n       == Len(encoded)
        index   == [i \in 1..n |-> IndexOf(base32Chars, encoded[i])]
        \* bits += index.toString(2).padStart(5, '0')
        bits    == [k \in 1..(5 * n) |->
                      (index[((k - 1) \div 5) + 1] \div Pow2(4 - ((k - 1) % 5))) % 2]
        \* for (i = 0; i + 8 <= bits.length; i += 8) parseInt(bits.substr(i, 8), 2)
        count   == Len(bits) \div 8
        bytes   == [b \in 1..count |->
                      128 * bits[8 * b - 7] + 64 * bits[8 * b - 6]
                    + 32 * bits[8 * b - 5] + 16 * bits[8 * b - 4]
                    + 8 * bits[8 * b - 3] + 4 * bits[8 * b - 2]
                    + 2 * bits[8 * b - 1] + bits[8 * b]]
    IN  IF \E i \in 1..n : index[i] = -1
          THEN [threw |-> TRUE, bytes |-> <<>>]
        ELSE [threw |-> FALSE, bytes |-> bytes]

\* intToBytes(int): bytes[i] = int & 0xff; int = Math.floor(int / 256), i = 7..0
RECURSIVE intToBytesFrom(_, _)
intToBytesFrom(int, left) ==
    IF left = 0 THEN <<>>
    ELSE Append(intToBytesFrom(int \div 256, left - 1), int % 256)

intToBytes(int) == intToBytesFrom(int, 8)

\* hmac[i] & mask, where hmac[i] is undefined (and the result 0) past the end
ByteAnd(hmac, i, mask) ==
    IF i + 1 \in DOMAIN hmac THEN Nibbles(And4, hmac[i + 1], mask) ELSE 0

\* const offset = hmac[hmac.length - 1] & 0x0F
TruncateOffset(hmac) == ByteAnd(hmac, Len(hmac) - 1, 15)

\* dynamicTruncate returning the 31-bit value itself, its modulo forgotten
dynamicTruncateNoModulo(hmac, digits) ==
    LET offset == ByteAnd(hmac, Len(hmac) - 1, 15)
    IN    ByteAnd(hmac, offset, 127) * 16777216
        + ByteAnd(hmac, offset + 1, 255) * 65536
        + ByteAnd(hmac, offset + 2, 255) * 256
        + ByteAnd(hmac, offset + 3, 255)

\* dynamicTruncate(hmac), with this.codeDigits = digits
dynamicTruncate(hmac, digits) ==
    LET offset == TruncateOffset(hmac)
        code   == ByteAnd(hmac, offset, 127) * 16777216
                + ByteAnd(hmac, offset + 1, 255) * 65536
                + ByteAnd(hmac, offset + 2, 255) * 256
                + ByteAnd(hmac, offset + 3, 255)
    IN  code % Pow10(digits)

(***************************************************************************)
(* Inputs of the model                                                     *)
(***************************************************************************)
MaxSecretLen == 17      \* secrets are prefixes of the patterns, this long at most
MaxNow       == 31      \* the wall clock reads 0..MaxNow seconds
MaxCounter   == 1       \* explicit timestamps cover the windows 0..MaxCounter

SecretPatterns ==
    { \* JBSWY3DPEHPK3PXPJB
      <<"J", "B", "S", "W", "Y", "3", "D", "P", "E", "H", "P", "K", "3", "P",
        "X", "P", "J", "B">>,
      \* abcdefghijklmnopqr
      <<"a", "b", "c", "d", "e", "f", "g", "h", "i", "j", "k", "l", "m", "n",
        "o", "p", "q", "r">>,
      \* 012345670123456701
      <<"0", "1", "2", "3", "4", "5", "6", "7", "0", "1", "2", "3", "4", "5",
        "6", "7", "0", "1">>,
      \* eighteen padding signs
      <<"=", "=", "=", "=", "=", "=", "=", "=", "=", "=", "=", "=", "=", "=",
        "=", "=", "=", "=">>,
      \* JBSW-Y3DP EHPK=3PXP (with a dash, a space and a padding sign)
      <<"J", "B", "S", "W", "-", "Y", "3", "D", "P", " ", "E", "H", "P", "K",
        "=", "3", "P", "X">>,
      \* JBSWY3DPEHPK3P8XPJ (8 is not in the alphabet)
      <<"J", "B", "S", "W", "Y", "3", "D", "P", "E", "H", "P", "K", "3", "P",
        "8", "X", "P", "J">>,
      \* jbswy3dpehpk3px!ab
      <<"j", "b", "s", "w", "y", "3", "d", "p", "e", "h", "p", "k", "3", "p",
        "x", "!", "a", "b">> }

\* The secrets handed to generate: the prefixes of the patterns of the last
\* two lengths, the empty string and a value that is not a string.
GenSecrets ==
    { JsString(SubSeq(p, 1, n)) :
        p \in SecretPatterns, n \in (MaxSecretLen - 1)..MaxSecretLen }
    \cup {JsString(<<>>), JsNull}

NullTime == -1          \* the default of generate's parameter: time = null

\* The timestamps handed explicitly: the first and last second of each of the
\* first windows, and two large ones.
GenTimes ==
    { c * 30 + r : c \in 0..MaxCounter, r \in {0, 29} }
    \cup {1111111109, 2147483647}

\* the catch of generate returning the placeholder code its comment speaks of
PlaceholderString == <<"0", "0", "0", "0", "0", "0">>

\* return 'ERROR'
ErrorString == <<"E", "R", "R", "O", "R">>

(***************************************************************************)
(* State                                                                   *)
(***************************************************************************)
VARIABLES
    timeStep,       \* TOTP.timeStep
    codeDigits,     \* TOTP.codeDigits
    now,            \* the wall clock, Math.floor(Date.now() / 1000)
    cryptoSubtle,   \* the platform has crypto.subtle
    call,           \* the method call under observation and its arguments
    ret,            \* what that call returned
    gen,            \* the generate call in flight: where it is and what it ran
    currentSecret,          \* ZKSAuth.currentSecret
    timerInterval,          \* ZKSAuth.timerInterval (0 for null)
    codeGenerationInterval, \* ZKSAuth.codeGenerationInterval (0 for null)
    intervals,      \* the intervals setInterval made and clearInterval has not cleared
    nextInterval,   \* the id the next setInterval returns
    pending,        \* the generate calls of the page awaiting their HMAC
    codeValue,      \* the text of #code-value
    codeHidden,     \* #code-display has the class hidden
    timerSeconds,   \* the text of #timer-seconds
    notifications,  \* the error notifications in the document
    submits         \* how many times generateCode was called

totpVars == <<timeStep, codeDigits, now, cryptoSubtle, call, ret, gen>>
appVars  == <<currentSecret, timerInterval, codeGenerationInterval, intervals,
              nextInterval, pending, codeValue, codeHidden, timerSeconds,
              notifications, submits>>
vars     == <<totpVars, appVars>>

NullInterval == 0

\* new ZKSAuth(), on a page whose code display is still hidden
ZksAuthInit ==
    /\ currentSecret = <<>>
    /\ timerInterval = NullInterval
    /\ codeGenerationInterval = NullInterval
    /\ intervals = {}
    /\ nextInterval = 1
    /\ pending = {}
    /\ codeValue = <<>>
    /\ codeHidden = TRUE
    /\ timerSeconds = 0
    /\ notifications = {}
    /\ submits = 0

\* A call of a method of TOTP: its name and its arguments (those it does not
\* take are left at their defaults).
Call(op, secret, time, key, message) ==
    [op |-> op, secret |-> secret, time |-> time, key |-> key, message |-> message]
GenerateCall(secret, time)   == Call("generate", secret, time, <<>>, <<>>)
RemainingCall(time)          == Call("getRemainingSeconds", JsNull, time, <<>>, <<>>)
ValidateCall(secret)         == Call("validateSecret", secret, NullTime, <<>>, <<>>)
DecodeCall(text)             == Call("base32Decode", JsString(text), NullTime, <<>>, <<>>)
Sha1Call(data)               == Call("sha1Simple", JsNull, NullTime, <<>>, data)
HmacCall(key, message)       == Call("hmacSha1", JsNull, NullTime, key, message)
NoCall == Call("none", JsNull, NullTime, <<>>, <<>>)
NoGen  == [phase |-> "none", key |-> <<>>, counter |-> 0, steps |-> <<>>,
           path |-> "none", maxRead |-> -1]

\* new TOTP()
TotpInit ==
    /\ timeStep = 30
    /\ codeDigits = 6

(***************************************************************************)
(* TOTP.generate                                                           *)
(***************************************************************************)
\* HMACs of the keys and counters of the model, computed once.
GenKeys ==
    { base32Decode(CleanSecret(s.chars)).bytes : s \in GenSecrets }
GenMessages ==
    { intToBytes(t \div 30) : t \in GenTimes \cup 0..MaxNow }
NativeMemo == [k \in GenKeys, m \in GenMessages |-> NativeHmacSha1(k, m)]
SimpleMemo == [k \in GenKeys, m \in GenMessages |-> hmacSha1Simple(k, m)]

\* hmacSha1(key, message) when crypto.subtle signs (lines 139-149)
hmacSha1Native(key, message) ==
    IF <<key, message>> \in DOMAIN NativeMemo THEN NativeMemo[key, message]
    ELSE NativeHmacSha1(key, message)

\* hmacSha1(key, message) when it falls back (line 156)
hmacSha1Fallback(key, message) ==
    IF <<key, message>> \in DOMAIN SimpleMemo THEN SimpleMemo[key, message]
    ELSE hmacSha1Simple(key, message)

\* String(code).padStart(this.codeDigits, '0')
FormatCode(code, digits) == padStart(DecimalString(code), digits, "0")

\* generate(secret, time) up to its await: the clock default, the counter, the
\* cleaning and base32Decode.  A TypeError of secret.replace or the Error of
\* base32Decode lands in the catch, which returns 'ERROR'.
GenerateBegin ==
    /\ call.op = "generate"
    /\ gen.phase = "none"
    /\ LET secret  == call.secret
           time    == call.time
           t       == IF time = NullTime THEN now ELSE time
           counter == t \div timeStep
           decoded == base32Decode(CleanSecret(secret.chars))
       IN  /\ IF secret.type # "string"
                THEN /\ gen' = [NoGen EXCEPT !.phase = "done"]
                     /\ ret' = ErrorString
              ELSE IF decoded.threw
                THEN /\ gen' = [NoGen EXCEPT !.phase = "done",
                                              !.steps = <<"base32Decode">>]
                     /\ ret' = ErrorString
              ELSE /\ gen' = [NoGen EXCEPT !.phase = "awaitHmac",
                                            !.key = decoded.bytes,
                                            !.counter = counter,
                                            !.steps = <<"base32Decode">>]
                   /\ ret' = <<>>
    /\ UNCHANGED <<timeStep, codeDigits, now, cryptoSubtle, call>>
    /\ UNCHANGED appVars

\* generate after the await: dynamicTruncate, padStart, return
GenerateEnd(hmac, path) ==
    /\ gen' = [gen EXCEPT !.phase = "done",
                          !.steps = gen.steps \o <<"hmacSha1", "dynamicTruncate">>,
                          !.path = path,
                          !.maxRead = TruncateOffset(hmac) + 3]
    /\ ret' = FormatCode(dynamicTruncate(hmac, codeDigits), codeDigits)
    /\ UNCHANGED <<timeStep, codeDigits, now, cryptoSubtle, call>>
    /\ UNCHANGED appVars

\* the await resolves with the Web Crypto signature
HmacNativeResolves ==
    /\ gen.phase = "awaitHmac"
    /\ cryptoSubtle
    /\ GenerateEnd(hmacSha1Native(gen.key, intToBytes(gen.counter)), "native")

\* the await resolves with hmacSha1Simple: there is no crypto.subtle, or
\* importKey or sign threw ('Web Crypto API failed, using fallback')
HmacFallbackResolves ==
    /\ gen.phase = "awaitHmac"
    /\ GenerateEnd(hmacSha1Fallback(gen.key, intToBytes(gen.counter)), "fallback")

(***************************************************************************)
(* TOTP.getRemainingSeconds                                                *)
(***************************************************************************)
\* getRemainingSeconds() declares no parameter: an argument is ignored.
getRemainingSeconds(time, clock, step) == step - (clock % step)

GetRemainingSeconds ==
    /\ call.op = "getRemainingSeconds"
    /\ gen.phase = "none"
    /\ ret' = getRemainingSeconds(call.time, now, timeStep)
    /\ gen' = [NoGen EXCEPT !.phase = "done"]
    /\ UNCHANGED <<timeStep, codeDigits, now, cryptoSubtle, call>>
    /\ UNCHANGED appVars

\* The calls observed: generate and getRemainingSeconds, with and without an
\* explicit timestamp, at every reading of the clock.
TotpCalls ==
    { GenerateCall(s, t) : s \in GenSecrets, t \in GenTimes \cup {NullTime} }
    \cup { RemainingCall(t) : t \in GenTimes \cup {NullTime} }

Init ==
    /\ TotpInit
    /\ now \in 0..MaxNow
    /\ cryptoSubtle \in BOOLEAN
    /\ call \in TotpCalls
    /\ ret = <<>>
    /\ gen = NoGen
    /\ ZksAuthInit

Next ==
    \/ GenerateBegin
    \/ HmacNativeResolves
    \/ HmacFallbackResolves
    \/ GetRemainingSeconds

Spec == Init /\ [][Next]_vars

(***************************************************************************)
(* Properties of generate and getRemainingSeconds                          *)
(***************************************************************************)
IsSixDigits(str) ==
    /\ Len(str) = 6
    /\ \A i \in 1..6 :
          str[i] \in {"0", "1", "2", "3", "4", "5", "6", "7", "8", "9"}

Base32Alphabet ==
    {"A", "B", "C", "D", "E", "F", "G", "H", "I", "J", "K", "L", "M", "N", "O",
     "P", "Q", "R", "S", "T", "U", "V", "W", "X", "Y", "Z",
     "2", "3", "4", "5", "6", "7"}

\* The normal form of a secret, character by character: whitespace and dashes
\* dropped, letters uppercased, 0 read as O and 1 as I.
NormalChar(ch) ==
    CASE ch = "0" -> "O"
      [] ch = "1" -> "I"
      [] \E k \in 1..26 : LowerLetters[k] = ch ->
            UpperLetters[CHOOSE k \in 1..26 : LowerLetters[k] = ch]
      [] OTHER -> ch

NormalForm(chars) ==
    LET kept == SelectSeq(chars, LAMBDA ch : ch \notin {" ", "\t", "\n", "-"})
    IN  [i \in 1..Len(kept) |-> NormalChar(kept[i])]

\* The normal form, '=' removed, has a character outside A-Z2-7.
HasForeignChar(secret) ==
    /\ secret.type = "string"
    /\ \E i \in 1..Len(NormalForm(secret.chars)) :
          NormalForm(secret.chars)[i] \notin Base32Alphabet \cup {"="}

\* C1: for every secret that validateSecret accepts and every timestamp,
\* generate decodes the secret without an error, runs the HMAC and the
\* truncation, reads no digest byte past index 19 and returns six decimal
\* digits, never 'ERROR'.
C1_SixDigits ==
    (call.op = "generate" /\ validateSecret(call.secret))
        => /\ gen.phase # "none" => gen.steps[1] = "base32Decode"
           /\ gen.phase = "awaitHmac" => ret = <<>>
           /\ gen.phase = "done" =>
                 /\ gen.steps = <<"base32Decode", "hmacSha1", "dynamicTruncate">>
                 /\ gen.maxRead <= 19
                 /\ IsSixDigits(ret)
                 /\ ret # <<"E", "R", "R", "O", "R">>

\* a valid secret made of padding only (an empty key) got its code at an
\* explicit timestamp
C1_Witness ==
    /\ call.op = "generate"
    /\ validateSecret(call.secret)
    /\ call.time = 59
    /\ gen.phase = "done"
    /\ gen.key = <<>>
    /\ IsSixDigits(ret)

\* C2: for every secret whose normal form has a character outside A-Z2-7,
\* generate stops at the decode step (no HMAC, no truncation) and its outcome
\* is the error signal, which is no six-digit string.
C2_DecodeErrorSignalled ==
    (call.op = "generate" /\ HasForeignChar(call.secret) /\ gen.phase # "none")
        => /\ gen.phase = "done"
           /\ gen.steps = <<"base32Decode">>
           /\ gen.path = "none"
           /\ ~IsSixDigits(ret)
           /\ ret # <<"0", "0", "0", "0", "0", "0">>
           /\ ret = ErrorString

C2_Witness ==
    /\ call.op = "generate"
    /\ HasForeignChar(call.secret)
    /\ Len(call.secret.chars) >= 16
    /\ call.time = NullTime
    /\ gen.phase = "done"
    /\ ret = ErrorString

\* C4: getRemainingSeconds(t) with an explicit timestamp t returns
\* 30 - (t mod 30), whatever the wall clock reads.
C4_ExplicitTimestamp ==
    (call.op = "getRemainingSeconds" /\ call.time # NullTime /\ gen.phase = "done")
        => ret = 30 - (call.time % 30)

(***************************************************************************)
(* validateSecret and base32Decode on their own                            *)
(***************************************************************************)
MaxRun     == 17        \* a run of one character in a secret is this long at most
MaxTail    == 2         \* and the run after it this long at most
MaxTextLen == 9         \* a text handed to base32Decode has this many letters at most
MaxPadding == 2         \* and this many padding signs at most

Run(ch, n) == [i \in 1..n |-> ch]

ValidateChars == {"A", "z", "0", "1", "2", "7", "8", "9", "=", " ", "-", "!", "\t"}

\* The values handed to validateSecret: two runs of characters, the secrets
\* of generate, and a value that is not a string.
ValidateInputs ==
    { JsString(Run(c1, n1) \o Run(c2, n2)) :
        c1 \in ValidateChars, c2 \in ValidateChars,
        n1 \in 0..MaxRun, n2 \in 0..MaxTail }
    \cup GenSecrets

\* the alphabet from its k-th character on, then from its start
Rotated(k) == [i \in 1..32 |-> base32Chars[((i + k - 1) % 32) + 1]]

DecodePatterns ==
    { Rotated(0), Rotated(7), Rotated(13), Rotated(26), Rotated(31),
      <<"7", "7", "7", "7", "7", "7", "7", "7", "7", "7", "7", "7", "7", "7">>,
      <<"A", "A", "A", "A", "Z", "z", "7", "7", "E", "e", "A", "A", "A", "A">>,
      <<"M", "F", "R", "G", "G", "8", "Z", "A", "A", "A", "A", "A", "A", "A">> }

\* text with m padding signs put in after its first k characters (at its end
\* when it has fewer)
WithPadding(text, k, m) ==
    LET cut == IF k > Len(text) THEN Len(text) ELSE k
    IN  [i \in 1..(Len(text) + m) |->
            IF i <= cut THEN text[i]
            ELSE IF i <= cut + m THEN "="
            ELSE text[i - m]]

DecodeTexts ==
    { WithPadding(SubSeq(p, 1, n), k, m) :
        p \in DecodePatterns, n \in 0..MaxTextLen, k \in 0..MaxTextLen,
        m \in 0..MaxPadding }

ValidateSecret ==
    /\ call.op = "validateSecret"
    /\ gen.phase = "none"
    /\ ret' = validateSecret(call.secret)
    /\ gen' = [NoGen EXCEPT !.phase = "done"]
    /\ UNCHANGED <<timeStep, codeDigits, now, cryptoSubtle, call>>
    /\ UNCHANGED appVars

Base32Decode ==
    /\ call.op = "base32Decode"
    /\ gen.phase = "none"
    /\ ret' = base32Decode(call.secret.chars)
    /\ gen' = [NoGen EXCEPT !.phase = "done", !.steps = <<"base32Decode">>]
    /\ UNCHANGED <<timeStep, codeDigits, now, cryptoSubtle, call>>
    /\ UNCHANGED appVars

CodecInit ==
    /\ TotpInit
    /\ now = 0
    /\ cryptoSubtle = FALSE
    /\ call \in { ValidateCall(v) : v \in ValidateInputs }
                \cup { DecodeCall(t) : t \in DecodeTexts }
    /\ ret = <<>>
    /\ gen = NoGen
    /\ ZksAuthInit

CodecNext ==
    \/ ValidateSecret
    \/ Base32Decode

CodecSpec == CodecInit /\ [][CodecNext]_vars

\* C5: validateSecret returns true exactly when its argument is a string whose
\* normal form has at least 16 characters, all of them in A-Z, 2-7 or '='; it
\* returns a boolean for every argument and leaves the TOTP object as it was.
C5_ValidateSecret ==
    (call.op = "validateSecret" /\ gen.phase = "done")
        => /\ ret \in BOOLEAN
           /\ ret = ( /\ call.secret.type = "string"
                      /\ Len(NormalForm(call.secret.chars)) >= 16
                      /\ \A i \in 1..Len(NormalForm(call.secret.chars)) :
                            NormalForm(call.secret.chars)[i]
                                \in Base32Alphabet \cup {"="} )
           /\ timeStep = 30
           /\ codeDigits = 6

\* a raw secret of 18 characters whose normal form has exactly 16 is accepted
C5_Witness ==
    /\ call.op = "validateSecret"
    /\ gen.phase = "done"
    /\ Len(call.secret.chars) = 18
    /\ Len(NormalForm(call.secret.chars)) = 16
    /\ call.secret.chars[1] = "0"
    /\ ret = TRUE

\* the index of a letter in the Base32 alphabet of RFC 4648
Rfc4648Letters ==
    <<"A", "B", "C", "D", "E", "F", "G", "H", "I", "J", "K", "L", "M", "N", "O",
      "P", "Q", "R", "S", "T", "U", "V", "W", "X", "Y", "Z",
      "2", "3", "4", "5", "6", "7">>
LetterValue(ch) == (CHOOSE i \in 1..32 : Rfc4648Letters[i] = ch) - 1

\* bit k (0 the most significant) of the w-bit number v
BitOf(v, k, w) == (v \div Pow2(w - 1 - k)) % 2

\* C8: for a text of letters A-Z, 2-7 and '=' signs anywhere, base32Decode
\* does not throw and returns floor(5n/8) bytes, n the number of letters: bit
\* j of the output is bit j of the concatenated 5-bit values of the letters,
\* and the last 5n mod 8 bits are dropped.
C8_Base32Decode ==
    (/\ call.op = "base32Decode"
     /\ gen.phase = "done"
     /\ \A i \in 1..Len(call.secret.chars) :
           call.secret.chars[i] \in Base32Alphabet \cup {"="})
        => LET letters == SelectSeq(call.secret.chars, LAMBDA ch : ch # "=")
               n       == Len(letters)
           IN  /\ ret.threw = FALSE
               /\ Len(ret.bytes) = (5 * n) \div 8
               /\ \A j \in 0..(8 * Len(ret.bytes) - 1) :
                     BitOf(ret.bytes[(j \div 8) + 1], j % 8, 8)
                         = BitOf(LetterValue(letters[(j \div 5) + 1]), j % 5, 5)

\* nine letters around two padding signs: 45 bits, five bytes, five bits dropped
C8_Witness ==
    /\ call.op = "base32Decode"
    /\ gen.phase = "done"
    /\ Len(call.secret.chars) = 11
    /\ call.secret.chars[4] = "="
    /\ call.secret.chars[5] = "="
    /\ call.secret.chars[1] = "7"
    /\ ret.threw = FALSE
    /\ Len(ret.bytes) = 5
    /\ ret.bytes[1] = 255

(***************************************************************************)
(* sha1Simple and the two paths of hmacSha1 on their own                   *)
(***************************************************************************)
MaxDataLen == 70        \* sha1Simple is handed 0..MaxDataLen bytes
MaxKeyLen  == 66        \* HMAC keys have up to MaxKeyLen bytes

\* n bytes that differ from place to place
Bytes(n, seed) == [i \in 1..n |-> (i * 37 + seed) % 256]

Sha1Inputs == { Bytes(n, seed) : n \in 0..MaxDataLen, seed \in {0, 201} }

HmacKeys ==
    { Bytes(n, 11) : n \in {0, 1, 10, 20} \cup (MaxKeyLen - 3)..MaxKeyLen }

\* the empty message, and the 8-byte counters generate signs
HmacMessages == {<<>>} \cup { intToBytes(c) : c \in {0, 1, 37037036} }

\* sha1Simple(data): the padded message it builds and the digest it returns
Sha1Simple ==
    /\ call.op = "sha1Simple"
    /\ gen.phase = "none"
    /\ ret' = [paddedData |-> sha1SimplePad(call.message),
               result     |-> sha1Simple(call.message)]
    /\ gen' = [NoGen EXCEPT !.phase = "done"]
    /\ UNCHANGED <<timeStep, codeDigits, now, cryptoSubtle, call>>
    /\ UNCHANGED appVars

\* hmacSha1(key, message) down each of its two paths
HmacSha1 ==
    /\ call.op = "hmacSha1"
    /\ gen.phase = "none"
    /\ ret' = [native   |-> NativeHmacSha1(call.key, call.message),
               fallback |-> hmacSha1Simple(call.key, call.message)]
    /\ gen' = [NoGen EXCEPT !.phase = "done", !.steps = <<"hmacSha1">>]
    /\ UNCHANGED <<timeStep, codeDigits, now, cryptoSubtle, call>>
    /\ UNCHANGED appVars

ShaInit ==
    /\ TotpInit
    /\ now = 0
    /\ cryptoSubtle = TRUE
    /\ call \in { Sha1Call(d) : d \in Sha1Inputs }
                \cup { HmacCall(k, m) : k \in HmacKeys, m \in HmacMessages }
    /\ ret = <<>>
    /\ gen = NoGen
    /\ ZksAuthInit

ShaNext ==
    \/ Sha1Simple
    \/ HmacSha1

ShaSpec == ShaInit /\ [][ShaNext]_vars

\* C7: the message sha1Simple pads from L bytes is the shortest multiple of
\* 64 bytes that holds L + 9: the data, 0x80, zeros, and in the last eight
\* bytes the bit length 8 * L as a 64-bit big-endian integer, whose upper
\* four bytes are zero.
C7_Padding ==
    (call.op = "sha1Simple" /\ gen.phase = "done")
        => LET L == Len(call.message)
               P == ret.paddedData
               n == Len(P)
           IN  /\ n % 64 = 0
               /\ n >= L + 9
               /\ n - 64 < L + 9
               /\ \A j \in 1..L : P[j] = call.message[j]
               /\ P[L + 1] = 128
               /\ \A j \in (L + 2)..(n - 8) : P[j] = 0
               /\ \A j \in (n - 7)..(n - 4) : P[j] = 0
               /\ P[n - 3] = ((8 * L) \div 16777216) % 256
               /\ P[n - 2] = ((8 * L) \div 65536) % 256
               /\ P[n - 1] = ((8 * L) \div 256) % 256
               /\ P[n] = (8 * L) % 256

\* C3: hmacSha1Simple returns the 20 bytes of the native HMAC-SHA1 for every
\* key and message.
C3_PathsAgree ==
    (call.op = "hmacSha1" /\ gen.phase = "done")
        => /\ Len(ret.fallback) = 20
           /\ ret.fallback = ret.native

(***************************************************************************)
(* The page: class ZKSAuth                                                 *)
(***************************************************************************)
AppFirstNow == 27       \* the clock reads AppFirstNow when the page loads
AppMaxNow   == 33       \* and the model follows it up to AppMaxNow
MaxSubmits  == 2        \* generateCode is called at most MaxSubmits times
MaxPending  == 2        \* at most MaxPending generate calls await at once

\* hmacSha1 as the page sees it: the Web Crypto path where crypto.subtle is
\* there (importKey rejects an empty key, which takes the fallback), the
\* fallback elsewhere.
hmacSha1(key, message, subtle) ==
    IF subtle /\ key # <<>> THEN hmacSha1Native(key, message)
    ELSE hmacSha1Fallback(key, message)

\* The string generate(secret, time) resolves to.
generate(secret, time, step, digits, subtle) ==
    LET counter == time \div step
        decoded == base32Decode(CleanSecret(secret.chars))
    IN  IF secret.type # "string" \/ decoded.threw THEN ErrorString
        ELSE FormatCode(
                 dynamicTruncate(hmacSha1(decoded.bytes, intToBytes(counter), subtle),
                                 digits),
                 digits)

\* String.prototype.trim
RECURSIVE TrimLeft(_)
TrimLeft(str) ==
    IF str # <<>> /\ Head(str) \in {" ", "\t", "\n"} THEN TrimLeft(Tail(str))
    ELSE str
RECURSIVE TrimRight(_)
TrimRight(str) ==
    IF str # <<>> /\ str[Len(str)] \in {" ", "\t", "\n"}
      THEN TrimRight(SubSeq(str, 1, Len(str) - 1))
    ELSE str
trim(str) == TrimLeft(TrimRight(str))

\* What the user types into #secret-key: two secrets that validate (the
\* second typed with a space after it), one that does not, and nothing.
TypedSecrets ==
    { SubSeq(<<"J", "B", "S", "W", "Y", "3", "D", "P", "E", "H", "P", "K", "3",
               "P", "X", "P", "J", "B">>, 1, MaxSecretLen - 1),
      SubSeq(<<"a", "b", "c", "d", "e", "f", "g", "h", "i", "j", "k", "l", "m",
               "n", "o", "p", "q", "r">>, 1, MaxSecretLen - 1) \o <<" ">>,
      SubSeq(<<"j", "b", "s", "w", "y", "3", "d", "p", "e", "h", "p", "k", "3",
               "p", "x", "!", "a", "b">>, 1, MaxSecretLen - 1),
      <<>> }

MsgEmpty   == "Please enter a secret key"
MsgInvalid == "Invalid secret key format. Please enter a valid base32 encoded key."

\* the least id no pending call has
FreshPending == CHOOSE n \in 1..(MaxPending + 1) : \A p \in pending : p.id # n

\* displayCode(code)
displayCode(code) ==
    /\ codeValue' = code
    /\ codeHidden' = FALSE

\* The click on #generate-btn (or Enter): generateCode(secretInput.value.trim())
\* up to its await.  generateTOTPCode calls totp.generate(secret), which reads
\* the clock and decodes before it awaits the HMAC.
GenerateCode(typed) ==
    /\ submits < MaxSubmits
    /\ Cardinality(pending) < MaxPending
    /\ submits' = submits + 1
    /\ LET secret == trim(typed)
       IN  IF secret = <<>>
             THEN /\ notifications' = notifications \cup {MsgEmpty}
                  /\ UNCHANGED <<currentSecret, pending>>
           ELSE IF ~validateSecret(JsString(secret))
             THEN /\ notifications' = notifications \cup {MsgInvalid}
                  /\ UNCHANGED <<currentSecret, pending>>
           ELSE /\ currentSecret' = secret
                /\ pending' = pending \cup
                      {[id |-> FreshPending, kind |-> "generateCode",
                        secret |-> secret, time |-> now]}
                /\ UNCHANGED notifications
    /\ UNCHANGED <<timerInterval, codeGenerationInterval, intervals, nextInterval,
                   codeValue, codeHidden, timerSeconds>>
    /\ UNCHANGED totpVars

\* generateCode after its await: displayCode(code); startTimer(), which runs
\* updateTimer() and stores a new interval in timerInterval; startAutoRefresh(),
\* which stores a new interval in codeGenerationInterval.  Neither clears the
\* interval stored before.  An interval fires first one second after it is set.
GenerateCodeResume(p) ==
    /\ p \in pending
    /\ p.kind = "generateCode"
    /\ pending' = pending \ {p}
    /\ displayCode(generate(JsString(p.secret), p.time, timeStep, codeDigits,
                            cryptoSubtle))
    /\ timerSeconds' = getRemainingSeconds(NullTime, now, timeStep)
    /\ timerInterval' = nextInterval
    /\ codeGenerationInterval' = nextInterval + 1
    /\ intervals' = intervals \cup
          {[id |-> nextInterval, kind |-> "timer", fired |-> TRUE, since |-> now],
           [id |-> nextInterval + 1, kind |-> "autoRefresh", fired |-> TRUE,
            since |-> now]}
    /\ nextInterval' = nextInterval + 2
    /\ UNCHANGED <<currentSecret, notifications, submits>>
    /\ UNCHANGED totpVars

\* the callback of the interval startTimer set: updateTimer()
TimerFires(i) ==
    /\ i \in intervals
    /\ i.kind = "timer"
    /\ ~i.fired
    /\ intervals' = (intervals \ {i}) \cup {[i EXCEPT !.fired = TRUE]}
    /\ timerSeconds' = getRemainingSeconds(NullTime, now, timeStep)
    /\ UNCHANGED <<currentSecret, timerInterval, codeGenerationInterval,
                   nextInterval, pending, codeValue, codeHidden, notifications,
                   submits>>
    /\ UNCHANGED totpVars

\* the callback of the interval startAutoRefresh set, up to its await:
\* if (remaining <= 1 && this.currentSecret) generateTOTPCode(this.currentSecret)
AutoRefreshFires(i) ==
    /\ i \in intervals
    /\ i.kind = "autoRefresh"
    /\ ~i.fired
    /\ LET remaining == getRemainingSeconds(NullTime, now, timeStep)
           refresh   == remaining <= 1 /\ currentSecret # <<>>
       IN  /\ refresh => Cardinality(pending) < MaxPending
           /\ pending' = IF refresh
                           THEN pending \cup
                                  {[id |-> FreshPending, kind |-> "autoRefresh",
                                    secret |-> currentSecret, time |-> now]}
                         ELSE pending
    /\ intervals' = (intervals \ {i}) \cup {[i EXCEPT !.fired = TRUE]}
    /\ UNCHANGED <<currentSecret, timerInterval, codeGenerationInterval,
                   nextInterval, codeValue, codeHidden, timerSeconds,
                   notifications, submits>>
    /\ UNCHANGED totpVars

\* that callback after its await: this.displayCode(newCode)
AutoRefreshResume(p) ==
    /\ p \in pending
    /\ p.kind = "autoRefresh"
    /\ pending' = pending \ {p}
    /\ displayCode(generate(JsString(p.secret), p.time, timeStep, codeDigits,
                            cryptoSubtle))
    /\ UNCHANGED <<currentSecret, timerInterval, codeGenerationInterval, intervals,
                   nextInterval, timerSeconds, notifications, submits>>
    /\ UNCHANGED totpVars

\* stopTimers(): clearInterval on the two intervals the fields hold
StopTimers ==
    /\ timerInterval # NullInterval \/ codeGenerationInterval # NullInterval
    /\ intervals' = { i \in intervals :
                        i.id \notin {timerInterval, codeGenerationInterval} }
    /\ timerInterval' = NullInterval
    /\ codeGenerationInterval' = NullInterval
    /\ UNCHANGED <<currentSecret, nextInterval, pending, codeValue, codeHidden,
                   timerSeconds, notifications, submits>>
    /\ UNCHANGED totpVars

\* showError's setTimeout: the notification is taken out of the document
NotificationRemoved(msg) ==
    /\ msg \in notifications
    /\ notifications' = notifications \ {msg}
    /\ UNCHANGED <<currentSecret, timerInterval, codeGenerationInterval, intervals,
                   nextInterval, pending, codeValue, codeHidden, timerSeconds,
                   submits>>
    /\ UNCHANGED totpVars

\* A second passes.  Every interval has fired in the second that ends (the
\* 1000 ms cadence of setInterval), and fires again in the one that begins.
Tick ==
    /\ now < AppMaxNow
    /\ \A i \in intervals : i.fired
    /\ now' = now + 1
    /\ intervals' = { [i EXCEPT !.fired = FALSE] : i \in intervals }
    /\ UNCHANGED <<timeStep, codeDigits, cryptoSubtle, call, ret, gen>>
    /\ UNCHANGED <<currentSecret, timerInterval, codeGenerationInterval,
                   nextInterval, pending, codeValue, codeHidden, timerSeconds,
                   notifications, submits>>

AppInit ==
    /\ TotpInit
    /\ now = AppFirstNow
    /\ cryptoSubtle \in BOOLEAN
    /\ call = NoCall
    /\ ret = <<>>
    /\ gen = NoGen
    /\ ZksAuthInit

AppNext ==
    \/ \E typed \in TypedSecrets : GenerateCode(typed)
    \/ \E p \in pending : GenerateCodeResume(p)
    \/ \E i \in intervals : TimerFires(i)
    \/ \E i \in intervals : AutoRefreshFires(i)
    \/ \E p \in pending : AutoRefreshResume(p)
    \/ StopTimers
    \/ \E msg \in notifications : NotificationRemoved(msg)
    \/ Tick

AppSpec == AppInit /\ [][AppNext]_vars

\* C6: while the page polls every second with a secret set, the code shown
\* follows the rotation: once the auto-refresh interval has polled in a new
\* 30-second window and no generation is pending, the code shown is the code
\* of generate(currentSecret, t) for that window.
C6_DisplayFollowsRotation ==
    \A i \in intervals :
        (/\ i.kind = "autoRefresh"
         /\ i.id = codeGenerationInterval
         /\ i.since < timeStep * (now \div timeStep)
         /\ i.fired
         /\ currentSecret # <<>>
         /\ pending = {})
            => codeValue = generate(JsString(currentSecret), now, timeStep,
                                    codeDigits, cryptoSubtle)

\* C9: every interval that runs is one of the two the fields record (so that
\* at most one countdown and one auto-refresh interval run, and stopTimers
\* leaves none).
C9_OnlyRecordedIntervals ==
    \A i \in intervals :
        \/ i.kind = "timer" /\ i.id = timerInterval
        \/ i.kind = "autoRefresh" /\ i.id = codeGenerationInterval

\* C10: once no generation is pending, the code shown was computed from the
\* current value of currentSecret (at some second since the page loaded).
C10_DisplayedFromCurrentSecret ==
    (pending = {} /\ ~codeHidden)
        => \E c \in { t \div timeStep : t \in AppFirstNow..now } :
              codeValue = generate(JsString(currentSecret), c * timeStep,
                                   timeStep, codeDigits, cryptoSubtle)

====
